---- MODULE Spec2Model ----
(***************************************************************************)
(* Model of the website analyzer (app.py): the Streamlit script main, the  *)
(* fetch, the four heuristic analyzers, the Lighthouse orchestrator        *)
(* run_lighthouse_analysis and the report display.                         *)
(*                                                                         *)
(* One execution of main is one "run".  Activating a control (a button)    *)
(* starts a fresh execution of main in which only that control reads as    *)
(* active.  External commands (subprocess.run with check=True) end in one  *)
(* of: exit 0, non-zero exit (CalledProcessError, a SubprocessError), the  *)
(* program not found (FileNotFoundError) or another OSError.               *)
(***************************************************************************)
EXTENDS Integers, Sequences, FiniteSets, TLC

VARIABLES
    os_name,            \* os.name of the host: "nt" or "posix"
    chrome_paths,       \* the known install paths at which a browser binary exists
    runs,               \* executions of main started so far
    clicked,            \* the control whose activation started this execution
    url,                \* value of the text input
    pc,                 \* position of the running execution of main
    requests,           \* requests.get calls made in this execution
    response,           \* how the last requests.get ended, "none" before it
    content,            \* the fetched document, or NoContent
    fetch_error,        \* the st.error cause shown by get_page_content
    executed,           \* functions called by main in this execution, in order
    findings,           \* output of the analyzers (st.warning / st.success ...)
    uncaught,           \* exception that left main uncaught, or "none"
    log,                \* operations of run_lighthouse_analysis, in order
    msgs,               \* warnings shown by run_lighthouse_analysis
    failure,            \* the failure causes shown by run_lighthouse_analysis
    lighthouse_results, \* return value of run_lighthouse_analysis
    terminate_button,   \* the 'Terminate Chrome processes' control is on the page
    summary             \* what display_lighthouse_results rendered

vars == <<os_name, chrome_paths, runs, clicked, url, pc, requests, response, content,
          fetch_error, executed, findings, uncaught, log, msgs, failure,
          lighthouse_results, terminate_button, summary>>

hostVars == <<os_name, chrome_paths>>
lhVars == <<log, msgs, failure, lighthouse_results, terminate_button>>

----------------------------------------------------------------------------
(* Bounds of the model *)

MaxRuns == 3
MaxH1 == 2

----------------------------------------------------------------------------
(* Documents *)

Absent == [kind |-> "absent", len |-> 0]
Incomplete == [kind |-> "incomplete", len |-> 0]
Text(n) == [kind |-> "text", len |-> n]

TitleMin == 50
TitleMax == 60
DescMin == 150
DescMax == 160
CtaGood == 3
MaxFormFields == 5
MaxExternalScripts == 5
MaxExternalStyles == 3
MaxImages == 10
MaxPageKb == 500

NoContent == [kind |-> "none"]
\* a 200 response with an empty body
EmptyContent == [kind |-> "empty"]

BaseDoc ==
    [kind |-> "html",
     title |-> Text(55),
     meta_desc |-> Text(155),
     viewport |-> Text(30),
     h1 |-> 1,
     imgs |-> <<"alt">>,
     links |-> <<"rel", "http">>,
     buttons |-> <<"cta", "cta", "cta">>,
     forms |-> <<2>>,
     ext_scripts |-> 1,
     ext_styles |-> 1,
     bytes |-> 2048,
     media_queries |-> 1]

TitleCases == {Absent, Incomplete, Text(49), Text(50), Text(60), Text(61)}
DescCases == {Absent, Incomplete, Text(149), Text(150), Text(160), Text(161)}
ViewportCases == {Absent, Incomplete}

Docs ==
    {BaseDoc}
    \cup {[BaseDoc EXCEPT !.title = t] : t \in TitleCases}
    \cup {[BaseDoc EXCEPT !.meta_desc = d] : d \in DescCases}
    \cup {[BaseDoc EXCEPT !.viewport = v, !.media_queries = 0] : v \in ViewportCases}
    \cup {[BaseDoc EXCEPT !.h1 = n] : n \in 0..MaxH1}
    \cup {[BaseDoc EXCEPT !.imgs = i] : i \in {<<>>, <<"alt", "noalt">>, <<"emptyalt">>}}
    \cup {[BaseDoc EXCEPT !.buttons = b, !.forms = f] :
             b \in {<<>>, <<"blank", "plain", "cta">>}, f \in {<<>>, <<6, 5>>}}
    \cup {[BaseDoc EXCEPT !.ext_scripts = 6, !.ext_styles = 4, !.bytes = b] :
             b \in {512000, 512001}}
    \cup {[BaseDoc EXCEPT !.title = Incomplete, !.meta_desc = Incomplete,
                          !.viewport = Incomplete]}

----------------------------------------------------------------------------
(* The heuristic analyzers.  An analyzer yields the exception it raises    *)
(* ("none" when it returns) and the findings it emitted before that.       *)

Count(seq, S) == Cardinality({i \in DOMAIN seq : seq[i] \in S})

Finding(cat, sev, msg, metric) == <<cat, sev, msg, metric>>

Returned(fs) == [raised |-> "none", findings |-> fs]
Raised(exc) == [raised |-> exc, findings |-> {}]

\* len("Missing"), the default of an absent title / description
MissingLen == 7

LengthFinding(msg, n, lo, hi) ==
    IF n < lo \/ n > hi THEN Finding("seo", "warn", msg, n)
    ELSE Finding("seo", "ok", msg, n)

H1Finding(n) ==
    IF n = 0 THEN Finding("seo", "warn", "no_h1", 0)
    ELSE IF n > 1 THEN Finding("seo", "warn", "multiple_h1", n)
    ELSE Finding("seo", "ok", "one_h1", n)

\* not img.get("alt"): an image without alt, or with an empty alt
images_without_alt(doc) == Count(doc.imgs, {"noalt", "emptyalt"})

AltFinding(doc) ==
    IF images_without_alt(doc) > 0
    THEN Finding("seo", "warn", "images_without_alt", images_without_alt(doc))
    ELSE Finding("seo", "ok", "all_images_alt", 0)

analyze_seo(doc) ==
    IF doc.meta_desc.kind = "incomplete" THEN Raised("KeyError")      \* meta_desc["content"]
    ELSE IF doc.title.kind = "incomplete" THEN Raised("TypeError")    \* len(None)
    ELSE LET tlen == IF doc.title.kind = "absent" THEN MissingLen ELSE doc.title.len
             dlen == IF doc.meta_desc.kind = "absent" THEN MissingLen ELSE doc.meta_desc.len
         IN  Returned({LengthFinding("title_length", tlen, TitleMin, TitleMax),
                       LengthFinding("meta_description_length", dlen, DescMin, DescMax),
                       H1Finding(doc.h1),
                       AltFinding(doc),
                       Finding("seo", "info", "internal_links", Count(doc.links, {"rel"})),
                       Finding("seo", "info", "external_links", Count(doc.links, {"http"}))})

cta_count(doc) == Count(doc.buttons, {"cta"})

analyze_conversion(doc) ==
    Returned(
        {IF cta_count(doc) = 0 THEN Finding("conversion", "warn", "no_ctas", 0)
         ELSE IF cta_count(doc) < CtaGood
              THEN Finding("conversion", "warn", "few_ctas", cta_count(doc))
              ELSE Finding("conversion", "ok", "ctas", cta_count(doc))}
        \cup (IF Len(doc.forms) > 0
              THEN {Finding("conversion", "warn", "long_form", i) :
                       i \in {j \in DOMAIN doc.forms : doc.forms[j] > MaxFormFields}}
              ELSE {Finding("conversion", "warn", "no_forms", 0)}))

analyze_performance(doc) ==
    Returned(
        (IF doc.ext_scripts > MaxExternalScripts
         THEN {Finding("performance", "warn", "external_scripts", doc.ext_scripts)} ELSE {})
        \cup (IF doc.ext_styles > MaxExternalStyles
              THEN {Finding("performance", "warn", "external_styles", doc.ext_styles)} ELSE {})
        \cup (IF Len(doc.imgs) > MaxImages
              THEN {Finding("performance", "warn", "images", Len(doc.imgs))} ELSE {})
        \cup (IF doc.bytes > MaxPageKb * 1024
              THEN {Finding("performance", "warn", "page_size", doc.bytes)} ELSE {}))

analyze_mobile_friendliness(doc) ==
    Returned(
        {IF doc.viewport.kind # "absent"
         THEN Finding("mobile", "ok", "viewport", doc.viewport.len)
         ELSE Finding("mobile", "warn", "no_viewport", 0),
         IF doc.media_queries > 0
         THEN Finding("mobile", "ok", "media_queries", doc.media_queries)
         ELSE Finding("mobile", "warn", "no_media_queries", 0)})

----------------------------------------------------------------------------
(* The fetch *)

FetchOutcomes ==
    {"200", "404", "403", "500", "other_status", "MissingSchema",
     "ConnectionError", "Timeout", "RequestException"}

FetchFailures == FetchOutcomes \ {"200"}

\* the text get_page_content returns (None on a failure) and the cause it shows
Fetched(body) == [content |-> body, error |-> "none"]
FetchFailed(cause) == [content |-> NoContent, error |-> cause]

\* variant: the 404 / 403 / 500 branches are missing
get_page_content_generic(outcome, body) ==
    CASE outcome = "200" -> Fetched(body)
      [] outcome \in {"404", "403", "500", "other_status"} ->
             FetchFailed("Error: Received status code")
      [] outcome = "MissingSchema" -> FetchFailed("Invalid URL.")
      [] outcome = "ConnectionError" -> FetchFailed("Connection Error.")
      [] outcome = "Timeout" -> FetchFailed("Request timed out.")
      [] outcome = "RequestException" -> FetchFailed("Error fetching the page")

get_page_content(outcome, body) ==
    CASE outcome = "200" -> Fetched(body)
      [] outcome = "404" -> FetchFailed("Error 404: Page not found.")
      [] outcome = "403" -> FetchFailed("Error 403: Access forbidden.")
      [] outcome = "500" -> FetchFailed("Error 500: Internal Server Error.")
      [] outcome = "other_status" -> FetchFailed("Error: Received status code")
      [] outcome = "MissingSchema" -> FetchFailed("Invalid URL.")
      [] outcome = "ConnectionError" -> FetchFailed("Connection Error.")
      [] outcome = "Timeout" -> FetchFailed("Request timed out.")
      [] outcome = "RequestException" -> FetchFailed("Error fetching the page")

----------------------------------------------------------------------------
(* The script: main *)

UrlInputs == {"", "no-scheme", "http://site"}

is_valid_url(u) == u = "http://site"

NoResults == [kind |-> "None"]
NoSummary == [kind |-> "none"]

Init ==
    /\ os_name \in {"nt", "posix"}
    /\ chrome_paths \in SUBSET {1, 2}
    /\ runs = 0
    /\ clicked = "none"
    /\ url = ""
    /\ pc = "idle"
    /\ requests = 0
    /\ response = "none"
    /\ content = NoContent
    /\ fetch_error = "none"
    /\ executed = <<>>
    /\ findings = {}
    /\ uncaught = "none"
    /\ log = <<>>
    /\ msgs = {}
    /\ failure = {}
    /\ lighthouse_results = NoResults
    /\ terminate_button = FALSE
    /\ summary = NoSummary

\* a fresh execution of the script: the page of the previous one is replaced
Rerun(control) ==
    /\ pc = "idle"
    /\ runs < MaxRuns
    /\ runs' = runs + 1
    /\ clicked' = control
    /\ pc' = "main"
    /\ requests' = 0
    /\ response' = "none"
    /\ content' = NoContent
    /\ fetch_error' = "none"
    /\ executed' = <<>>
    /\ findings' = {}
    /\ uncaught' = "none"
    /\ log' = <<>>
    /\ msgs' = {}
    /\ failure' = {}
    /\ lighthouse_results' = NoResults
    /\ terminate_button' = FALSE
    /\ summary' = NoSummary
    /\ UNCHANGED hostVars

ClickAnalyze ==
    /\ \E u \in UrlInputs : url' = u
    /\ Rerun("Analyze")

ClickTerminate ==
    /\ terminate_button
    /\ url' = url
    /\ Rerun("Terminate")

\* st.button(label): TRUE only in the execution its activation started
button(label) == clicked = label

MainStart ==
    /\ pc = "main"
    /\ pc' = IF button("Analyze") /\ url # "" /\ is_valid_url(url) THEN "fetch" ELSE "idle"
    /\ UNCHANGED <<hostVars, runs, clicked, url, requests, response, content, fetch_error,
                   executed, findings, uncaught, lhVars, summary>>

\* lines 688-693: if not content: return
Fetch ==
    /\ pc = "fetch"
    /\ \E outcome \in FetchOutcomes, body \in Docs \cup {EmptyContent} :
         LET r == get_page_content(outcome, body)
         IN  /\ response' = outcome
             /\ content' = r.content
             /\ fetch_error' = r.error
             /\ pc' = IF r.content \in {NoContent, EmptyContent} THEN "idle" ELSE "seo"
    /\ requests' = requests + 1
    /\ executed' = Append(executed, "get_page_content")
    /\ UNCHANGED <<hostVars, runs, clicked, url, findings, uncaught, lhVars, summary>>

\* main calls the analyzers with no exception handler of its own
Analyze(at, name, result, next) ==
    /\ pc = at
    /\ executed' = Append(executed, name)
    /\ findings' = findings \cup result.findings
    /\ uncaught' = result.raised
    /\ pc' = IF result.raised = "none" THEN next ELSE "idle"
    /\ UNCHANGED <<hostVars, runs, clicked, url, requests, response, content,
                   fetch_error, lhVars, summary>>

AnalyzeSeo == Analyze("seo", "analyze_seo", analyze_seo(content), "conversion")
AnalyzeConversion ==
    Analyze("conversion", "analyze_conversion", analyze_conversion(content), "performance")
AnalyzePerformance ==
    Analyze("performance", "analyze_performance", analyze_performance(content), "mobile")
AnalyzeMobile ==
    Analyze("mobile", "analyze_mobile_friendliness", analyze_mobile_friendliness(content),
            "lighthouse")

----------------------------------------------------------------------------
(* The orchestrator: run_lighthouse_analysis.  Each stage is an operator   *)
(* from what the environment answers to what the stage does: the           *)
(* operations it issues, the warnings and failure causes it shows, and     *)
(* either the next stage or the end of the run (return None).              *)

\* subprocess.run(..., check=True)
CmdOutcomes == {"ok", "nonzero", "notfound", "oserror"}
\* tasklist: exit 0 with or without "chrome.exe" in its output, or a failure
TasklistOutcomes == {"running", "not_running", "nonzero", "notfound", "oserror"}
\* the report file the tool left behind
FileOutcomes == {"valid", "bad_utf8_json_ok", "bad_utf8_json_bad", "bad_json", "missing"}

\* an operation the orchestrator issued and what the environment answered
Op(name, answer) == <<name, answer>>

Advance(ops, ws, next) ==
    [ops |-> ops, msgs |-> ws, causes |-> {}, next |-> next, button |-> FALSE]
ReturnNone(ops, ws, causes) ==
    [ops |-> ops, msgs |-> ws, causes |-> causes, next |-> "lh_done", button |-> FALSE]
\* the handler of line 397: except Exception -> "Failed to run Lighthouse analysis"
Uncaught(ops, ws, causes) == ReturnNone(ops, ws, causes \cup {"Generic"})

runtime_probe(node) ==
    LET ops == <<Op("runtime_probe", node)>>
    IN  IF node = "ok" THEN Advance(ops, {"node_detected"}, "browser_probe")
        ELSE IF node \in {"nonzero", "notfound"}
             THEN ReturnNone(ops, {}, {"RuntimeMissing"})
             ELSE Uncaught(ops, {}, {})

\* chrome_found is set only inside the os.name == 'nt' branch
chrome_found(os, paths) == os = "nt" /\ paths # {}

\* variant: the probe never ends the run
browser_probe_always(os, paths) ==
    Advance(<<Op("browser_probe", IF chrome_found(os, paths) THEN "found" ELSE "not_found")>>,
            {}, "contention_check")

browser_probe(os, paths) ==
    IF chrome_found(os, paths)
    THEN Advance(<<Op("browser_probe", "found")>>, {"chrome_detected"}, "contention_check")
    ELSE ReturnNone(<<Op("browser_probe", "not_found")>>, {}, {"BrowserMissing"})

WithButton(r) == [r EXCEPT !.button = TRUE]

\* variant: a conflicting instance does not stop the run
contention_check_ignore(os, tasklist, confirmed, taskkill) ==
    LET probe == <<Op("contention_check", tasklist)>>
    IN  IF os # "nt" THEN Advance(<<>>, {}, "tool_provisioning")
        ELSE IF tasklist = "running"
        THEN WithButton(Advance(probe, {"chrome_running"}, "tool_provisioning"))
        ELSE IF tasklist = "not_running" THEN Advance(probe, {}, "tool_provisioning")
        ELSE IF tasklist = "nonzero"
        THEN Advance(probe, {"could_not_check"}, "tool_provisioning")
        ELSE Uncaught(probe, {}, {})

\* variant: a conflicting instance is terminated without asking
contention_check_auto(os, tasklist, confirmed, taskkill) ==
    LET probe == <<Op("contention_check", tasklist)>>
        kill == probe \o <<Op("forced_terminate", taskkill)>>
    IN  IF os # "nt" THEN Advance(<<>>, {}, "tool_provisioning")
        ELSE IF tasklist = "running"
        THEN WithButton(
             IF taskkill = "ok"
             THEN Advance(kill, {"chrome_running", "chrome_terminated"}, "tool_provisioning")
             ELSE IF taskkill = "nonzero"
             THEN ReturnNone(kill, {"chrome_running"}, {"CleanupFailed"})
             ELSE Uncaught(kill, {"chrome_running"}, {}))
        ELSE IF tasklist = "not_running" THEN Advance(probe, {}, "tool_provisioning")
        ELSE IF tasklist = "nonzero"
        THEN Advance(probe, {"could_not_check"}, "tool_provisioning")
        ELSE Uncaught(probe, {}, {})

contention_check(os, tasklist, confirmed, taskkill) ==
    LET probe == <<Op("contention_check", tasklist)>>
        kill == probe \o <<Op("forced_terminate", taskkill)>>
    IN  IF os # "nt" THEN Advance(<<>>, {}, "tool_provisioning")
        ELSE IF tasklist = "running"
        THEN WithButton(
             IF confirmed
             THEN IF taskkill = "ok"
                  THEN Advance(kill, {"chrome_running", "chrome_terminated"},
                               "tool_provisioning")
                  ELSE IF taskkill = "nonzero"
                  THEN ReturnNone(kill, {"chrome_running"}, {"CleanupFailed"})
                  ELSE Uncaught(kill, {"chrome_running"}, {})
             ELSE ReturnNone(probe, {"chrome_running"}, {"ResourceBusy"}))
        ELSE IF tasklist = "not_running" THEN Advance(probe, {}, "tool_provisioning")
        ELSE IF tasklist = "nonzero"
        THEN Advance(probe, {"could_not_check"}, "tool_provisioning")
        ELSE Uncaught(probe, {}, {})

\* the install failure is shown as str(e): the command and its exit status,
\* not the command's output
tool_provisioning(probe, install) ==
    LET probed == <<Op("tool_probe", probe)>>
        installed == probed \o <<Op("tool_install", install)>>
    IN  IF probe = "ok" THEN Advance(probed, {"lighthouse_available"}, "invocation")
        ELSE IF probe = "nonzero"
        THEN IF install = "ok"
             THEN Advance(installed, {"lighthouse_not_found", "lighthouse_installed"},
                          "invocation")
             ELSE IF install = "nonzero"
             THEN ReturnNone(installed, {"lighthouse_not_found"}, {"ToolInstallFailed"})
             ELSE Uncaught(installed, {"lighthouse_not_found"}, {})
        ELSE Uncaught(probed, {}, {})

\* stderr: the failed tool wrote to standard error (e.stderr is non-empty)
invocation(os, tool, stderr, taskkill) ==
    LET ran == <<Op("invocation", tool)>>
        kill == ran \o <<Op("error_terminate", taskkill)>>
        ws == IF stderr THEN {"tool_stderr"} ELSE {}
    IN  IF tool = "ok" THEN Advance(ran, {"analysis_completed"}, "post_run_cleanup")
        ELSE IF tool = "nonzero"
        THEN IF os # "nt" THEN ReturnNone(ran, ws, {"ToolExecutionError"})
             ELSE IF taskkill = "ok"
             THEN ReturnNone(kill, ws \cup {"cleanup_attempted"}, {"ToolExecutionError"})
             ELSE IF taskkill = "nonzero"
             THEN ReturnNone(kill, ws, {"ToolExecutionError"})
             ELSE Uncaught(kill, ws, {"ToolExecutionError"})
        ELSE Uncaught(ran, {}, {})

post_run_cleanup(os, tasklist, taskkill) ==
    LET probe == <<Op("cleanup_probe", tasklist)>>
        kill == probe \o <<Op("cleanup_terminate", taskkill)>>
    IN  IF os # "nt" THEN Advance(<<>>, {}, "report_retrieval")
        ELSE IF tasklist = "running"
        THEN IF taskkill = "ok"
             THEN Advance(kill, {"chrome_cleaned_up"}, "report_retrieval")
             ELSE IF taskkill = "nonzero"
             THEN Advance(kill, {"could_not_clean_up"}, "report_retrieval")
             ELSE Uncaught(kill, {}, {})
        ELSE IF tasklist = "not_running" THEN Advance(probe, {}, "report_retrieval")
        ELSE IF tasklist = "nonzero"
        THEN Advance(probe, {"could_not_check_cleanup"}, "report_retrieval")
        ELSE Uncaught(probe, {}, {})

\* the last stage either returns the parsed report (next = "return") or None
report_retrieval(file) ==
    IF file = "valid" THEN Advance(<<Op("report_read", "ok")>>, {}, "return")
    ELSE IF file = "bad_utf8_json_ok"
    THEN [Advance(<<Op("report_read", "UnicodeDecodeError"), Op("report_reread", "ok")>>,
                  {"characters_replaced"}, "return")
            EXCEPT !.causes = {"EncodingError"}]
    ELSE IF file = "bad_utf8_json_bad"
    THEN ReturnNone(<<Op("report_read", "UnicodeDecodeError"),
                      Op("report_reread", "JSONDecodeError")>>, {},
                    {"EncodingError", "ReportParseError"})
    ELSE IF file = "bad_json"
    THEN Uncaught(<<Op("report_read", "JSONDecodeError")>>, {}, {})
    ELSE Uncaught(<<Op("report_read", "FileNotFoundError")>>, {}, {})

----------------------------------------------------------------------------
(* The report (RawAuditReport) and display_lighthouse_results.             *)
(* A field of an entry is missing, null, or has a value.  Scores are in    *)
(* thousandths: Num(873) is the raw score 0.873.                           *)

Missing == [kind |-> "missing", val |-> 0]
Null == [kind |-> "null", val |-> 0]
Num(n) == [kind |-> "num", val |-> n]
Unknown == [kind |-> "unknown", val |-> 0]

NoStr == [kind |-> "missing", val |-> ""]
NullStr == [kind |-> "null", val |-> ""]
Str(x) == [kind |-> "str", val |-> x]

\* dict.get(field): a missing field and a null field both read as None
IsNone(f) == f.kind \in {"missing", "null"}
\* dict.get(field, default): the default replaces a missing field only
GetOr(f, default) == IF f.kind = "missing" THEN Str(default) ELSE f

\* round(x * 100) and f"{x * 100:.0f}" of a score x given in thousandths:
\* round-half-even on the double x * 100 (0.545 * 100 is just above 54.5,
\* 0.575 * 100 just below 57.5)
PyRound(s) ==
    LET q == s \div 10
        r == s % 10
    IN  IF s = 545 THEN 55
        ELSE IF s = 575 THEN 57
        ELSE IF r > 5 \/ (r = 5 /\ q % 2 = 1) THEN q + 1 ELSE q

BandOfPercent(p) == IF p >= 90 THEN "green" ELSE IF p >= 50 THEN "orange" ELSE "red"
\* the metric rows compare the unrounded score * 100
BandOfRaw(s) == IF s >= 900 THEN "green" ELSE IF s >= 500 THEN "orange" ELSE "red"

Category(key, title, score) == [key |-> key, null |-> FALSE, title |-> title, score |-> score]
NullCategory(key) == [key |-> key, null |-> TRUE, title |-> NoStr, score |-> Missing]

Audit(key, title, score, group, details) ==
    [key |-> key, null |-> FALSE, title |-> title, score |-> score,
     displayValue |-> Str("1.2 s"), description |-> Str("text"),
     group |-> group, details |-> details]
NullAudit(key) ==
    [key |-> key, null |-> TRUE, title |-> NoStr, score |-> Missing,
     displayValue |-> NoStr, description |-> NoStr, group |-> NoStr, details |-> "missing"]

\* lines 421-428: score_value or 0
CategoryRow(c) ==
    LET score == PyRound(IF IsNone(c.score) THEN 0 ELSE c.score.val)
    IN  [label |-> GetOr(c.title, c.key), score |-> Num(score), band |-> BandOfPercent(score)]

RECURSIVE CategoryRows(_)
CategoryRows(cats) ==
    IF cats = <<>> THEN <<>>
    ELSE IF Head(cats).null THEN CategoryRows(Tail(cats))
    ELSE <<CategoryRow(Head(cats))>> \o CategoryRows(Tail(cats))

MetricKeys ==
    <<"first-contentful-paint", "speed-index", "largest-contentful-paint",
      "interactive", "total-blocking-time", "cumulative-layout-shift">>

\* lines 486-510
MetricRow(a) ==
    [label |-> GetOr(a.title, a.key),
     displayValue |-> GetOr(a.displayValue, "N/A"),
     score |-> IF IsNone(a.score) THEN Unknown ELSE Num(PyRound(a.score.val)),
     band |-> IF IsNone(a.score) THEN "gray" ELSE BandOfRaw(a.score.val)]

RECURSIVE MetricRows(_, _)
MetricRows(keys, audits) ==
    IF keys = <<>> THEN <<>>
    ELSE LET hit == SelectSeq(audits, LAMBDA a : a.key = Head(keys) /\ ~a.null)
         IN  (IF hit = <<>> THEN <<>> ELSE <<MetricRow(hit[1])>>)
             \o MetricRows(Tail(keys), audits)

Entry(a) ==
    [title |-> GetOr(a.title, a.key),
     description |-> GetOr(a.description, ""),
     score |-> a.score.val]

Improvable(a) == ~a.null /\ ~IsNone(a.score) /\ a.score.val < 1000

\* line 524: 'items' not in audit_data['details'] raises TypeError on null details
OpportunityRaises(audits) ==
    \E i \in DOMAIN audits : Improvable(audits[i]) /\ audits[i].details = "null"

\* lines 516-531
Opportunities(audits) ==
    LET qualifies(a) == Improvable(a) /\ a.details \in {"empty_items", "items"}
        chosen == SelectSeq(audits, qualifies)
    IN  [i \in DOMAIN chosen |-> Entry(chosen[i])]

\* lines 562-581: the group is matched by substring, best-practices first
GroupHas(g, word) ==
    g.kind = "str" /\
    \/ g.val = word
    \/ g.val = "seo-best-practices"

BestPractices(audits) ==
    LET qualifies(a) == Improvable(a) /\ GroupHas(a.group, "best-practices")
        chosen == SelectSeq(audits, qualifies)
    IN  [i \in DOMAIN chosen |-> Entry(chosen[i])]

SeoRecommendations(audits) ==
    LET qualifies(a) == Improvable(a) /\ ~GroupHas(a.group, "best-practices")
                        /\ GroupHas(a.group, "seo")
        chosen == SelectSeq(audits, qualifies)
    IN  [i \in DOMAIN chosen |-> Entry(chosen[i])]

\* list.sort(key=safe_score_key): stable, ascending
InsertByScore(sorted, x) ==
    LET k == Cardinality({i \in DOMAIN sorted : sorted[i].score <= x.score})
    IN  SubSeq(sorted, 1, k) \o <<x>> \o SubSeq(sorted, k + 1, Len(sorted))

RECURSIVE SortByScore(_)
SortByScore(seq) ==
    IF seq = <<>> THEN <<>>
    ELSE InsertByScore(SortByScore(SubSeq(seq, 1, Len(seq) - 1)), seq[Len(seq)])

TopOpportunities == 5
TopRecommendations == 3

Top(seq, n) == SubSeq(seq, 1, IF Len(seq) < n THEN Len(seq) ELSE n)

display_lighthouse_results(report) ==
    LET rows == CategoryRows(report.categories)
        metrics == MetricRows(MetricKeys, report.audits)
    IN  IF rows = <<>>
        THEN [kind |-> "no_scores", categoryScores |-> <<>>, metrics |-> <<>>,
              opportunities |-> <<>>, bestPractices |-> <<>>, seoRecommendations |-> <<>>]
        ELSE IF OpportunityRaises(report.audits)
        THEN [kind |-> "error", categoryScores |-> rows, metrics |-> metrics,
              opportunities |-> <<>>, bestPractices |-> <<>>, seoRecommendations |-> <<>>]
        ELSE [kind |-> "rendered", categoryScores |-> rows, metrics |-> metrics,
              opportunities |-> Top(SortByScore(Opportunities(report.audits)),
                                    TopOpportunities),
              bestPractices |-> Top(SortByScore(BestPractices(report.audits)),
                                    TopRecommendations),
              seoRecommendations |-> Top(SortByScore(SeoRecommendations(report.audits)),
                                         TopRecommendations)]

CategoryLists ==
    <<<<Category("performance", Str("Performance"), Num(873)),
       Category("seo", Str("SEO"), Null)>>,
     <<Category("performance", NoStr, Num(495)),
       NullCategory("accessibility"),
       Category("best-practices", NullStr, Missing)>>,
     <<Category("performance", Str("Performance"), Num(1000)),
       Category("seo", Str("SEO"), Num(0))>>,
     <<NullCategory("performance")>>,
     <<Category("performance", Str("Performance"), Num(125)),
       Category("accessibility", Str("Accessibility"), Num(625)),
       Category("seo", Str("SEO"), Num(5)),
       Category("best-practices", Str("Best Practices"), Num(895))>>>>

AuditLists ==
    <<<<Audit("first-contentful-paint", Str("First Contentful Paint"), Num(895), NoStr, "missing"),
       Audit("speed-index", NoStr, Null, NoStr, "missing"),
       Audit("unused-css", Str("Unused CSS"), Num(500), NoStr, "items"),
       Audit("render-blocking", Str("Render blocking"), Num(125), NoStr, "empty_items"),
       Audit("doctype", Str("Doctype"), Num(0), Str("best-practices"), "missing"),
       Audit("meta-description", Str("Meta"), Num(0), Str("seo"), "no_items")>>,
     <<Audit("interactive", Str("Time to Interactive"), Missing, NoStr, "missing"),
       NullAudit("speed-index"),
       Audit("unused-js", Str("Unused JS"), Num(500), NullStr, "items"),
       Audit("images", Str("Images"), Num(500), Str("seo-best-practices"), "items"),
       Audit("fonts", Str("Fonts"), Num(1000), Str("seo"), "items")>>,
     <<Audit("largest-contentful-paint", Str("LCP"), Num(545), NoStr, "missing"),
       Audit("broken", Str("Broken"), Num(300), NoStr, "null"),
       Audit("unused-css", Str("Unused CSS"), Num(500), NoStr, "items")>>,
     <<Audit("cumulative-layout-shift", Str("CLS"), Num(895), NoStr, "items"),
       Audit("a1", Str("A1"), Num(500), Str("seo"), "items"),
       Audit("a2", Str("A2"), Num(300), Str("best-practices"), "items"),
       Audit("a3", Str("A3"), Num(500), Str("seo"), "items"),
       Audit("a4", Str("A4"), Num(300), Str("best-practices"), "items"),
       Audit("a5", Str("A5"), Num(500), Str("seo"), "items"),
       Audit("a6", Str("A6"), Num(300), Str("best-practices"), "items"),
       Audit("a7", Str("A7"), Num(100), Str("seo"), "items"),
       Audit("a8", Str("A8"), Num(300), Str("best-practices"), "items")>>>>

ReportPairs == {<<1, 1>>, <<2, 2>>, <<3, 3>>, <<4, 1>>, <<5, 4>>}

Reports ==
    {[categories |-> CategoryLists[p[1]], audits |-> AuditLists[p[2]]] : p \in ReportPairs}

----------------------------------------------------------------------------
(* The stages as steps of the running execution *)

mainVars == <<hostVars, runs, clicked, url, requests, response, content, fetch_error,
              findings, uncaught, summary>>

\* apply what a stage did; the run goes on to r.next
Stage(at, r) ==
    /\ pc = at
    /\ log' = log \o r.ops
    /\ msgs' = msgs \cup r.msgs
    /\ failure' = failure \cup r.causes
    /\ terminate_button' = (terminate_button \/ r.button)
    /\ pc' = r.next
    /\ lighthouse_results' = NoResults
    /\ UNCHANGED mainVars

RuntimeProbe ==
    /\ executed' = Append(executed, "run_lighthouse_analysis")
    /\ \E node \in CmdOutcomes : Stage("lighthouse", runtime_probe(node))

BrowserProbe ==
    /\ UNCHANGED executed
    /\ Stage("browser_probe", browser_probe(os_name, chrome_paths))

ContentionCheck ==
    /\ UNCHANGED executed
    /\ \E tasklist \in TasklistOutcomes, taskkill \in CmdOutcomes :
         Stage("contention_check",
               contention_check(os_name, tasklist,
                                button("Terminate"), taskkill))

ToolProvisioning ==
    /\ UNCHANGED executed
    /\ \E probe \in CmdOutcomes, install \in CmdOutcomes :
         Stage("tool_provisioning", tool_provisioning(probe, install))

Invocation ==
    /\ UNCHANGED executed
    /\ \E tool \in CmdOutcomes, stderr \in BOOLEAN, taskkill \in CmdOutcomes :
         Stage("invocation", invocation(os_name, tool, stderr, taskkill))

PostRunCleanup ==
    /\ UNCHANGED executed
    /\ \E tasklist \in TasklistOutcomes, taskkill \in CmdOutcomes :
         Stage("post_run_cleanup", post_run_cleanup(os_name, tasklist, taskkill))

ReportRetrieval ==
    /\ pc = "report_retrieval"
    /\ \E file \in FileOutcomes :
         LET r == report_retrieval(file)
         IN  /\ log' = log \o r.ops
             /\ msgs' = msgs \cup r.msgs
             /\ failure' = failure \cup r.causes
             /\ IF r.next = "return"
                THEN lighthouse_results' \in Reports
                ELSE lighthouse_results' = NoResults
    /\ pc' = "lh_done"
    /\ UNCHANGED <<mainVars, executed, terminate_button>>

\* lines 723-740: back in main
Finish ==
    /\ pc = "lh_done"
    /\ IF lighthouse_results # NoResults
       THEN /\ executed' = Append(executed, "display_lighthouse_results")
            /\ summary' = display_lighthouse_results(lighthouse_results)
            /\ msgs' = msgs
       ELSE /\ executed' = executed
            /\ summary' = NoSummary
            /\ msgs' = msgs \cup {"could_not_be_completed"}
    /\ pc' = "idle"
    /\ UNCHANGED <<hostVars, runs, clicked, url, requests, response, content,
                   fetch_error, findings, uncaught, log, failure, lighthouse_results,
                   terminate_button>>

Next ==
    \/ ClickAnalyze
    \/ ClickTerminate
    \/ MainStart
    \/ Fetch
    \/ AnalyzeSeo
    \/ AnalyzeConversion
    \/ AnalyzePerformance
    \/ AnalyzeMobile
    \/ RuntimeProbe
    \/ BrowserProbe
    \/ ContentionCheck
    \/ ToolProvisioning
    \/ Invocation
    \/ PostRunCleanup
    \/ ReportRetrieval
    \/ Finish

Spec == Init /\ [][Next]_vars

TypeOK ==
    /\ os_name \in {"nt", "posix"}
    /\ runs \in 0..MaxRuns
    /\ clicked \in {"none", "Analyze", "Terminate"}
    /\ content \in Docs \cup {NoContent, EmptyContent}
    /\ response \in FetchOutcomes \cup {"none"}
    /\ lighthouse_results \in Reports \cup {NoResults}

----------------------------------------------------------------------------
(* Properties *)

Issued(name) == \E i \in DOMAIN log : log[i][1] = name
Answered(name, answer) == \E i \in DOMAIN log : log[i] = Op(name, answer)
TimesIssued(name) == Cardinality({i \in DOMAIN log : log[i][1] = name})
Failed(name) == \E i \in DOMAIN log : log[i][1] = name /\ log[i][2] \in {"nonzero", "notfound", "oserror"}

\* run_lighthouse_analysis has returned
Returned_lh == pc \in {"lh_done", "idle"} /\ log # <<>>
\* the orchestrator is between two stages
InStages ==
    pc \in {"browser_probe", "contention_check", "tool_provisioning", "invocation",
            "post_run_cleanup", "report_retrieval"}

\* the stage an operation belongs to; the terminate of lines 383-394 is part
\* of the failure handler of the invocation
StageOf(name) ==
    CASE name = "runtime_probe" -> 1
      [] name = "browser_probe" -> 2
      [] name \in {"contention_check", "forced_terminate"} -> 3
      [] name \in {"tool_probe", "tool_install"} -> 4
      [] name \in {"invocation", "error_terminate"} -> 5
      [] name \in {"cleanup_probe", "cleanup_terminate"} -> 6
      [] name \in {"report_read", "report_reread"} -> 7

\* C1: the stages of a run are attempted in the order runtime probe, browser
\* probe, contention check, tool provisioning, invocation, post-run cleanup,
\* report retrieval; a stage is attempted only after every earlier stage was
\* attempted and advanced (no failure cause shown yet); with no browser binary
\* at any known path the run ends after the browser probe with BrowserMissing
\* and the tool is neither probed, installed nor invoked.
C1_StageOrder ==
    /\ \A i, j \in DOMAIN log : i < j => StageOf(log[i][1]) <= StageOf(log[j][1])
    /\ \A i \in DOMAIN log : \A k \in 1..(StageOf(log[i][1]) - 1) :
           \E j \in 1..(i - 1) : StageOf(log[j][1]) = k
    /\ InStages => failure = {} /\ log # <<>>
    /\ (chrome_paths = {} /\ Issued("browser_probe")) =>
           /\ failure = {"BrowserMissing"}
           /\ lighthouse_results = NoResults
           /\ ~Issued("tool_probe") /\ ~Issued("tool_install") /\ ~Issued("invocation")
           /\ pc \in {"lh_done", "idle"}

C1_Witness ==
    /\ os_name = "nt" /\ chrome_paths = {}
    /\ Answered("runtime_probe", "ok") /\ Answered("browser_probe", "not_found")
    /\ failure = {"BrowserMissing"} /\ pc = "idle"

\* C2: on a platform that is not Windows the browser probe assumes the browser
\* present: the run never ends with BrowserMissing there.
C2_AssumePresent == os_name # "nt" => "BrowserMissing" \notin failure

\* C3: the execution started by the 'Terminate Chrome processes and continue'
\* control (shown after contention was detected) issues the forced terminate
\* and reaches tool provisioning before it ends.
C3_ConfirmProceeds ==
    (clicked = "Terminate" /\ pc = "idle") =>
        (Issued("forced_terminate") /\ Issued("tool_probe"))

\* C4: when the contention check finds a conflicting browser instance and the
\* user has not confirmed, the run ends with ResourceBusy right after that one
\* check: no forced terminate, no tool probe, install or invocation, no second
\* check.
C4_ManualGate ==
    (Answered("contention_check", "running") /\ ~button("Terminate")) =>
        /\ failure = {"ResourceBusy"}
        /\ lighthouse_results = NoResults
        /\ pc \in {"lh_done", "idle"}
        /\ TimesIssued("contention_check") = 1
        /\ ~Issued("forced_terminate") /\ ~Issued("error_terminate")
        /\ ~Issued("tool_probe") /\ ~Issued("tool_install") /\ ~Issued("invocation")

C4_Witness ==
    /\ Answered("contention_check", "running") /\ ~button("Terminate")
    /\ "ResourceBusy" \in failure /\ terminate_button /\ pc = "idle"

\* C5: report retrieval: a file that decodes and parses is returned; a decode
\* failure is retried exactly once with replacement decoding and the result is
\* flagged degraded; a JSON parse failure on the first read or on the retry
\* ends the run with ReportParseError and not with the catch-all failure.
C5_ReportRetrieval ==
    Returned_lh =>
        /\ Answered("report_read", "ok") =>
               lighthouse_results \in Reports /\ "characters_replaced" \notin msgs
        /\ Answered("report_read", "UnicodeDecodeError") => TimesIssued("report_reread") = 1
        /\ Answered("report_reread", "ok") =>
               lighthouse_results \in Reports /\ "characters_replaced" \in msgs
        /\ (Answered("report_read", "JSONDecodeError")
            \/ Answered("report_reread", "JSONDecodeError")) =>
               /\ lighthouse_results = NoResults
               /\ "ReportParseError" \in failure
               /\ "Generic" \notin failure

\* C6: after the tool exits with code 0, a failure of the cleanup re-probe or
\* of the cleanup terminate is only a warning: the report is still read, and
\* returned when it can be read and parsed.
C6_CleanupNonFatal ==
    (Returned_lh /\ Answered("invocation", "ok")
        /\ (Failed("cleanup_probe") \/ Failed("cleanup_terminate"))) =>
        /\ Issued("report_read")
        /\ (Answered("report_read", "ok") \/ Answered("report_reread", "ok")) =>
               lighthouse_results \in Reports

\* C7: whenever the probe of the auditing CLI fails (non-zero exit, or the
\* launcher cannot be started) exactly one install is attempted; none when the
\* probe succeeds; a failed install ends the run with ToolInstallFailed
\* carrying the install command's output and the tool is not invoked; a
\* successful install leads to the invocation.
C7_Provisioning ==
    /\ TimesIssued("tool_install") <= 1
    /\ Failed("tool_probe") => TimesIssued("tool_install") = 1
    /\ Answered("tool_probe", "ok") => ~Issued("tool_install")
    /\ Failed("tool_install") =>
           /\ failure = {"ToolInstallFailed"}
           /\ "install_output" \in msgs
           /\ ~Issued("invocation")
    /\ Answered("tool_install", "ok") => (pc = "invocation" \/ Issued("invocation"))

\* C8: no analyzer raises, whatever the fetched document (a title element
\* without a single string, a description or viewport meta tag without
\* content): every analyzer and the orchestrator execute in the run.
C8_AnalyzerIsolation ==
    /\ uncaught = "none"
    /\ (pc = "idle" /\ content \in Docs) =>
           \A f \in {"analyze_seo", "analyze_conversion", "analyze_performance",
                     "analyze_mobile_friendliness", "run_lighthouse_analysis"} :
               \E i \in DOMAIN executed : executed[i] = f

\* C9: a fetch failure of any kind ends the run after that one request with a
\* cause of its own kind: no analyzer runs and the orchestrator is not started.
C9_FetchAborts ==
    /\ requests <= 1
    /\ response \in FetchFailures =>
           /\ requests = 1
           /\ pc = "idle"
           /\ content = NoContent
           /\ executed = <<"get_page_content">>
           /\ findings = {} /\ log = <<>> /\ summary = NoSummary
    /\ response \in FetchFailures \ {"RequestException"} =>
           /\ fetch_error \notin {"none", "Error fetching the page"}
           /\ \A other \in FetchFailures \ {response} :
                  get_page_content(other, EmptyContent).error # fetch_error

C9_Witness ==
    /\ response = "Timeout" /\ fetch_error = "Request timed out."
    /\ requests = 1 /\ pc = "idle" /\ clicked = "Analyze"

NonNullCategories(report) == SelectSeq(report.categories, LAMBDA c : ~c.null)
ShownMetrics(report) ==
    LET pick(k) == SelectSeq(report.audits, LAMBDA a : a.key = k /\ ~a.null)
        RECURSIVE all(_)
        all(keys) == IF keys = <<>> THEN <<>> ELSE pick(Head(keys)) \o all(Tail(keys))
    IN  all(MetricKeys)

\* C10: a row whose raw score is null or missing keeps the score unknown with
\* band gray, in the category table as in the metric rows; every non-null
\* category has its row; a row has a numeric score only for a numeric raw score.
C10_NullNotZero ==
    (summary # NoSummary /\ summary.kind # "no_scores") =>
        LET cats == NonNullCategories(lighthouse_results)
            mets == ShownMetrics(lighthouse_results)
        IN  /\ Len(summary.categoryScores) = Len(cats)
            /\ Len(summary.metrics) = Len(mets)
            /\ \A i \in DOMAIN cats :
                   IF IsNone(cats[i].score)
                   THEN summary.categoryScores[i].score = Unknown
                        /\ summary.categoryScores[i].band = "gray"
                   ELSE summary.categoryScores[i].score.kind = "num"
            /\ \A i \in DOMAIN mets :
                   IF IsNone(mets[i].score)
                   THEN summary.metrics[i].score = Unknown
                        /\ summary.metrics[i].band = "gray"
                   ELSE summary.metrics[i].score.kind = "num"

----------------------------------------------------------------------------
(* Properties of the report synthesis *)

Min(a, b) == IF a < b THEN a ELSE b
HasSummary == summary # NoSummary

\* what the specification lets into each list
SpecImprovable(a) == ~a.null /\ a.score.kind = "num" /\ a.score.val < 1000
SpecOpportunity(a) == SpecImprovable(a) /\ a.details = "items"
SpecBestPractice(a) == SpecImprovable(a) /\ GroupHas(a.group, "best-practices")
SpecSeo(a) ==
    SpecImprovable(a) /\ GroupHas(a.group, "seo") /\ ~GroupHas(a.group, "best-practices")

Shown(list, a) == \E k \in DOMAIN list : list[k] = Entry(a)

\* position of cand[i] when cand is ordered by score, ties by original position
Rank(cand, i) ==
    1 + Cardinality({j \in DOMAIN cand :
                        \/ cand[j].score < cand[i].score
                        \/ cand[j].score = cand[i].score /\ j < i})

RankedPrefix(cand, n) ==
    [k \in 1..Min(Len(cand), n) |-> cand[CHOOSE i \in DOMAIN cand : Rank(cand, i) = k]]

EntriesOf(audits, Test(_)) ==
    LET chosen == SelectSeq(audits, Test)
    IN  [i \in DOMAIN chosen |-> Entry(chosen[i])]

\* C11: an audit entry is an opportunity if and only if its score is present
\* and below 1.0 and its details carry a non-empty items list; an entry with
\* an empty items list or without details is not one.
C11_ExactFilter ==
    (HasSummary /\ summary.kind = "rendered") =>
        LET audits == lighthouse_results.audits
            qualifying == {i \in DOMAIN audits : SpecOpportunity(audits[i])}
        IN  /\ \A i \in DOMAIN audits :
                   Shown(summary.opportunities, audits[i]) => SpecOpportunity(audits[i])
            /\ Cardinality(qualifying) <= TopOpportunities =>
                   \A i \in qualifying : Shown(summary.opportunities, audits[i])

\* C12: for every report each of the three ranked lists is the qualifying
\* entries sorted ascending by score, ties in report order, truncated to the
\* first 5 (opportunities) or 3 (each recommendation list).
C12_RankedLists ==
    HasSummary =>
        LET audits == lighthouse_results.audits
        IN  /\ summary.opportunities =
                   RankedPrefix(EntriesOf(audits, SpecOpportunity), TopOpportunities)
            /\ summary.bestPractices =
                   RankedPrefix(EntriesOf(audits, SpecBestPractice), TopRecommendations)
            /\ summary.seoRecommendations =
                   RankedPrefix(EntriesOf(audits, SpecSeo), TopRecommendations)

\* Whenever the display completes, each list is the entries the extraction
\* collected, ordered by score with ties in report order, cut to 5 / 3 / 3.
RenderedListsAreRankedPrefixes ==
    (HasSummary /\ summary.kind = "rendered") =>
        LET audits == lighthouse_results.audits
        IN  /\ summary.opportunities =
                   RankedPrefix(Opportunities(audits), TopOpportunities)
            /\ summary.bestPractices =
                   RankedPrefix(BestPractices(audits), TopRecommendations)
            /\ summary.seoRecommendations =
                   RankedPrefix(SeoRecommendations(audits), TopRecommendations)

\* C13: the category table has one row per non-null category entry, in the
\* report's order; the label is the title when it is a non-null value and the
\* category's key when the title is missing or null.
C13_CategoryTable ==
    HasSummary =>
        LET cats == NonNullCategories(lighthouse_results)
        IN  /\ Len(summary.categoryScores) = Len(cats)
            /\ \A i \in DOMAIN cats :
                   summary.categoryScores[i].label =
                       IF cats[i].title.kind = "str" THEN cats[i].title
                       ELSE Str(cats[i].key)

\* floor(100 * s + 1/2) of a score s given in thousandths
HalfUp(s) == (s + 5) \div 10

\* C14: a present raw score s is displayed as floor(100 * s + 1/2) and the band
\* of the row is the band of that displayed integer.
C14_RoundHalfUp ==
    (HasSummary /\ summary.kind # "no_scores") =>
        LET cats == NonNullCategories(lighthouse_results)
            mets == ShownMetrics(lighthouse_results)
        IN  /\ \A i \in DOMAIN cats :
                   cats[i].score.kind = "num" =>
                       /\ summary.categoryScores[i].score = Num(HalfUp(cats[i].score.val))
                       /\ summary.categoryScores[i].band =
                              BandOfPercent(HalfUp(cats[i].score.val))
            /\ \A i \in DOMAIN mets :
                   mets[i].score.kind = "num" =>
                       /\ summary.metrics[i].score = Num(HalfUp(mets[i].score.val))
                       /\ summary.metrics[i].band = BandOfPercent(HalfUp(mets[i].score.val))

HasExecuted(f) == \E i \in DOMAIN executed : executed[i] = f

\* C15: a document with a title of exactly 55 characters, exactly one h1 and
\* an alt attribute (possibly empty) on every image gets no warn finding from
\* the Content/SEO analyzer (stated for the documents whose description, which
\* the scenario leaves open, has a recommended length).
C15_ScenarioA ==
    (content \in Docs /\ HasExecuted("analyze_seo")
        /\ content.title = Text(55) /\ content.h1 = 1
        /\ content.meta_desc.kind = "text"
        /\ content.meta_desc.len \in DescMin..DescMax
        /\ \A i \in DOMAIN content.imgs : content.imgs[i] \in {"alt", "emptyalt"}) =>
        /\ uncaught = "none"
        /\ \A f \in findings : ~(f[1] = "seo" /\ f[2] = "warn")

\* C16: a malformed audit entry (details present but null) does not keep the
\* other entries from being processed: the category table is produced and
\* every well-formed entry is in the lists it qualifies for.
C16_EntryIsolation ==
    (HasSummary /\ summary.kind # "no_scores") =>
        LET audits == lighthouse_results.audits
            wellFormed == {i \in DOMAIN audits : ~audits[i].null /\ audits[i].details # "null"}
            InList(Test(_), list, n) ==
                LET q == {i \in wellFormed : Test(audits[i])}
                IN  Cardinality(q) <= n => \A i \in q : Shown(list, audits[i])
        IN  /\ summary.kind # "error"
            /\ Len(summary.categoryScores) = Len(NonNullCategories(lighthouse_results))
            /\ InList(SpecOpportunity, summary.opportunities, TopOpportunities)
            /\ InList(SpecBestPractice, summary.bestPractices, TopRecommendations)
            /\ InList(SpecSeo, summary.seoRecommendations, TopRecommendations)

----------------------------------------------------------------------------
(* Properties of the shared browser *)

Terminates == {"forced_terminate", "cleanup_terminate", "error_terminate"}
SawBrowser == {Op("contention_check", "running"), Op("cleanup_probe", "running")}

\* C17: every forced terminate the orchestrator issues comes after a probe of
\* the same run that succeeded and reported a running browser instance.
C17_TerminateAfterProbe ==
    \A i \in DOMAIN log :
        log[i][1] \in Terminates => \E j \in 1..(i - 1) : log[j] \in SawBrowser

ReachedInvocation == pc = "invocation" \/ Issued("invocation")
BrowserFreed ==
    \/ Answered("contention_check", "not_running")
    \/ Answered("contention_check", "running") /\ Answered("forced_terminate", "ok")

\* C18: the tool invocation is reached only if the contention probe completed
\* and reported no conflicting instance, or the user confirmed and the forced
\* terminate succeeded; a probe that fails never lets the run reach it.
C18_InvokedOnlyWhenFree ==
    /\ ReachedInvocation => BrowserFreed
    /\ Failed("contention_check") => ~ReachedInvocation

\* C18 as amended: the invocation is reached only if the contention probe
\* reported no conflicting instance, or exited non-zero (a warning is shown and
\* the run goes on unchecked), or the user confirmed and the forced terminate
\* succeeded; a probe that cannot be started ends the run with the catch-all
\* failure and the tool is not invoked.
C18_InvokedOnlyWhenFreeOrUnchecked ==
    /\ ReachedInvocation =>
           \/ BrowserFreed
           \/ Answered("contention_check", "nonzero") /\ "could_not_check" \in msgs
    /\ (Answered("contention_check", "notfound") \/ Answered("contention_check", "oserror")) =>
           /\ ~ReachedInvocation
           /\ ~Issued("tool_probe")
           /\ failure = {"Generic"}

C18_Witness ==
    /\ Answered("contention_check", "nonzero")
    /\ Answered("invocation", "ok")
    /\ "could_not_check" \in msgs

====
